---- MODULE Spec2Model ----
(***************************************************************************)
(* Asynchronous financial-analysis job of paceterminal-ai:                 *)
(*   app/api/routes/analysis.py  submit / status / stream / cancel routes  *)
(*   app/tasks/analysis_task.py  the phase pipeline run by a Celery worker *)
(*   app/celery.py               the execution substrate's configuration   *)
(* The job record store is the Celery result backend: one record per task  *)
(* id, written by the worker and read by the routes through AsyncResult.   *)
(***************************************************************************)
EXTENDS Integers, Sequences, FiniteSets, TLC

(* ---------------- bounds of the model ---------------- *)
MaxStatus == 2      \* status requests issued by the client
MaxCancel == 1      \* cancel requests issued by the client
max_iterations == 6 \* polling cycles of one stream (600 in the source, scaled down)
HeartbeatEvery == 5 \* iterations % 5 == 0
HardTicks == 2      \* time units of the hard time limit (600 s in the source, scaled down)
SoftTicks == HardTicks - 1  \* the soft time limit comes before the hard one (540 < 600)
MaxAge == HardTicks + 2     \* time units the model follows a job
MaxLost == 1        \* worker processes lost while executing the job
MinQueryLen == 10   \* Field(..., min_length=10, ...)
MaxQueryLen == 1000 \* Field(..., max_length=1000)

(* ---------------- values ---------------- *)
None == "None"                  \* Python None / absent key (string-valued fields)
NoProgress == 0 - 1             \* Python None / absent key (progress)
NoCache == [state |-> "nocache"]

JobId == "t1"                   \* the id task.delay() allocates
GhostId == "u1"                 \* an id no submission ever returned
TaskIds == {JobId, GhostId}

Texts == {"txt"}                \* a non-empty text a phase function returns
Empty == ""                     \* a falsy return value
Reasons == {"", "net"}          \* str(e) of an exception a phase function raises;
                                \* some exceptions (timeouts) carry no message
PlanError == "Failed to generate research plan"
AnalysisError == "Failed to generate analysis"
(* str(e) of the exception the worker raises in the task at the soft limit *)
SoftLimitError == "SoftTimeLimitExceeded()"
(* str() of the exception the worker stores for a task killed at time_limit *)
HardLimitError == "TimeLimitExceeded(600,)"

READY_STATES == {"SUCCESS", "FAILURE", "REVOKED"}

(* One record of the result backend: state plus the stored result/meta.    *)
(* kind tells what the stored value is:                                    *)
(*   none    no record (AsyncResult reports PENDING, info None)            *)
(*   started the {pid, hostname} dict track_started stores                 *)
(*   meta    a progress dict written by update_progress(state="PROGRESS")  *)
(*   badmeta the dict update_progress(state="FAILURE") stores: the backend *)
(*           cannot decode it as an exception                              *)
(*   exc     an exception stored by the worker (FAILURE, REVOKED)          *)
(*   result  the dict financial_analysis returns                           *)
Rec(st, kd, ph, stt, msg, pr, phs, er) ==
    [state |-> st, kind |-> kd, phase |-> ph, status |-> stt, message |-> msg,
     progress |-> pr, phases |-> phs, err |-> er]

Absent == Rec("PENDING", "none", None, None, None, NoProgress, << >>, None)
Started == Rec("STARTED", "started", None, None, None, NoProgress, << >>, None)
Meta(ph, stt, msg, pr) == Rec("PROGRESS", "meta", ph, stt, msg, pr, << >>, None)
FailureMeta(e) ==
    Rec("FAILURE", "badmeta", "error", "failed", "Analysis failed: " \o e,
        NoProgress, << >>, e)
FailureExc(e) == Rec("FAILURE", "exc", None, None, None, NoProgress, << >>, e)
Revoked == Rec("REVOKED", "exc", None, None, None, NoProgress, << >>, "terminated")
(* mutant: the stored result has lost the phase outputs *)
Success_NoPhases(phs) ==
    Rec("SUCCESS", "result", None, "completed", None, NoProgress, << >>, None)
Success(phs) == Rec("SUCCESS", "result", None, "completed", None, NoProgress, phs, None)

(* ---------------- the pipeline of financial_analysis ---------------- *)
(* mutant: no write announces a phase as started *)
W_NeverStarted(ph, stt, msg, pr) ==
    [op |-> "write", phase |-> ph, status |-> "in_progress", message |-> msg,
     progress |-> pr, fn |-> None]
W(ph, stt, msg, pr) == [op |-> "write", phase |-> ph, status |-> stt, message |-> msg,
                        progress |-> pr, fn |-> None]
C(f) == [op |-> "call", phase |-> None, status |-> None, message |-> None,
         progress |-> NoProgress, fn |-> f]

SearchProgress(idx) == 30 + (idx + 1) * 10

Prog ==
    << W("planning", "started", "Decomposing financial query", 10),
       C("call_research_plan"),
       W("planning", "completed", "Research plan created", 25),
       W("research", "started", "Gathering market data", 30),
       C("call_resource_search_1"),
       W("research", "in_progress", "Completed search 1/3", SearchProgress(0)),
       C("call_resource_search_2"),
       W("research", "in_progress", "Completed search 2/3", SearchProgress(1)),
       C("call_resource_search_3"),
       W("research", "in_progress", "Completed search 3/3", SearchProgress(2)),
       W("research", "completed", "Research completed", 60),
       W("analysis", "started", "Synthesizing findings", 65),
       C("call_generate_analysis"),
       W("analysis", "completed", "Analysis generated", 85),
       W("validation", "started", "Auditing analysis quality", 90),
       C("call_self_reflection"),
       W("validation", "completed", "Quality validation complete", 95) >>

PlanDoneStep == 3         \* the write that carries "result": plan
ResearchDoneStep == 11    \* result["phases"]["research"] is set just before it
Searches == {"call_resource_search_1", "call_resource_search_2", "call_resource_search_3"}

(* ---------------- requests and answers of submit ---------------- *)
(* AnalysisRequest: query is modelled by its length (Missing: no query),    *)
(* reasoning_depth by its value (None: the field is absent)                 *)
Missing == 0 - 1
Request(len, depth) == [len |-> len, depth |-> depth]
QueryLens == {Missing, 0, MinQueryLen - 1, MinQueryLen, MaxQueryLen, MaxQueryLen + 1}
Depths == {None, "standard", "deep", "expert"}
Requests == {Request(l, d) : l \in QueryLens, d \in Depths}
DefaultRequest == Request(MinQueryLen, None)

(* mutant: no upper limit on the query *)
Valid_NoMax(req) ==
    /\ req.len # Missing
    /\ req.len >= MinQueryLen
    /\ (IF req.depth = None THEN "standard" ELSE req.depth) \in {"standard", "deep"}
(* query: str = Field(..., min_length=10, max_length=1000);                 *)
(* reasoning_depth: Literal["standard", "deep"] = "standard"                *)
Valid(req) ==
    /\ req.len # Missing
    /\ req.len >= MinQueryLen
    /\ req.len <= MaxQueryLen
    /\ (IF req.depth = None THEN "standard" ELSE req.depth) \in {"standard", "deep"}

SubmitAnswer(kd, id, stt, req) == [kind |-> kd, task_id |-> id, status |-> stt, req |-> req]
NoSubmit == SubmitAnswer("none", None, None, DefaultRequest)
(* AnalysisResponse(task_id=task.id, status="started", ...) *)
SubmitOk(req) == SubmitAnswer("ok", JobId, "started", req)
(* the request body fails validation: 422, the route function is not run *)
SubmitRejected(req) == SubmitAnswer("422", None, None, req)

(* ---------------- events of the stream ---------------- *)
Event(st, ph, stt, msg, pr, hasRes, res, er) ==
    [state |-> st, phase |-> ph, status |-> stt, message |-> msg, progress |-> pr,
     hasResult |-> hasRes, result |-> res, error |-> er]
NoEvent == Event(None, None, None, None, NoProgress, FALSE, << >>, None)

VARIABLES
    backend,          \* result backend: task id -> record
    wpc,              \* worker: "idle" (not submitted), "queued", "run", "exc", "raise", "done"
    step,             \* worker: index into Prog of the next step
    inCall,           \* worker: awaiting a phase function
    plan,             \* worker local: plan
    search_results,   \* worker local: search_results
    result_phases,    \* worker local: result["phases"], in insertion order
    exc,              \* worker local: str(e) of the exception being handled
    ctrl,             \* revoke broadcasts in flight to the worker
    revoked,          \* the worker's in-memory set of revoked ids
    cancels,          \* cancel responses returned so far, each with the state at that time
    invoked,          \* history: phase functions invoked by the worker of wpc, in order
    failedCall,       \* history: the phase function that raised, or None
    hist,             \* history: every record ever stored for JobId
    submitResp,       \* the last answer of the submit route, with its request
    age,              \* time units since the job's execution first started
    ran,              \* time units the execution in progress has been running
    nLost,            \* worker processes lost while executing the job
    wpc2,             \* second delivery of the message: "off", "run", "done"
    step2,            \* second delivery: index into Prog of the next step
    expired,          \* the backend has dropped the job's record (result_expires)
    spc,              \* status handler: position
    sid,              \* status handler: task_id
    scache,           \* status handler: AsyncResult._cache
    sstate,           \* status handler: response["state"]
    nStatus,          \* status requests issued so far
    resps,            \* the last two status responses returned, oldest first
    gpc,              \* stream generator: "off", "state", "info", "end"
    iterations,       \* stream generator: iterations
    last_info,        \* stream generator: last_info
    gcache,           \* stream generator: AsyncResult._cache
    gstate,           \* stream generator: current_state
    nEv,              \* events the stream has yielded so far
    lastEv,           \* the last event yielded
    maxProg,          \* history: the highest progress an event of the stream carried
    quiet             \* history: polling cycles completed since the last event

envVars == <<age, ran, nLost, wpc2, step2, expired>>
coreVars == <<backend, wpc, step, inCall, plan, search_results, result_phases, exc,
              ctrl, revoked, cancels, invoked, failedCall, hist, submitResp, envVars>>
statusVars == <<spc, sid, scache, sstate, nStatus, resps>>
streamVars == <<gpc, iterations, last_info, gcache, gstate, nEv, lastEv, maxProg, quiet>>
vars == <<coreVars, submitResp, statusVars, streamVars>>

workerLocals == <<plan, search_results, result_phases>>

Init ==
    /\ backend = [i \in TaskIds |-> Absent]
    /\ wpc = "idle"
    /\ step = 1
    /\ inCall = FALSE
    /\ plan = None
    /\ search_results = << >>
    /\ result_phases = << >>
    /\ exc = None
    /\ ctrl = {}
    /\ revoked = {}
    /\ cancels = << >>
    /\ invoked = << >>
    /\ failedCall = None
    /\ hist = {Absent}
    /\ submitResp = NoSubmit
    /\ age = 0
    /\ ran = 0
    /\ nLost = 0
    /\ wpc2 = "off"
    /\ step2 = 1
    /\ expired = FALSE
    /\ spc = "idle"
    /\ sid = None
    /\ scache = NoCache
    /\ sstate = None
    /\ nStatus = 0
    /\ resps = << >>
    /\ gpc = "off"
    /\ iterations = 0
    /\ last_info = <<None>>
    /\ gcache = NoCache
    /\ gstate = None
    /\ nEv = 0
    /\ lastEv = NoEvent
    /\ maxProg = NoProgress
    /\ quiet = 0

(* Store a record for the job (backend.store_result) *)
Store(r) ==
    /\ backend' = [backend EXCEPT ![JobId] = r]
    /\ hist' = hist \cup {r}

(* ---------------- submission ---------------- *)
(* mutant: delay() runs the task before it returns *)
Delay_Eager ==
    /\ wpc' = "run"
    /\ UNCHANGED <<backend, step, inCall, workerLocals, exc, ctrl, revoked, cancels,
                   invoked, failedCall, hist>>
(* financial_analysis_task.delay(...) publishes the task message and        *)
(* returns at once; nothing is written to the backend.                      *)
Delay ==
    /\ wpc' = "queued"
    /\ UNCHANGED <<backend, step, inCall, workerLocals, exc, ctrl, revoked, cancels,
                   invoked, failedCall, hist>>

(* start_financial_analysis called with a well-formed request *)
Submit ==
    /\ wpc = "idle"
    /\ Delay
    /\ submitResp' = SubmitOk(DefaultRequest)
    /\ UNCHANGED <<envVars, statusVars, streamVars>>

(* POST /analysis/start with any request body *)
SubmitRequest(req) ==
    /\ wpc = "idle"
    /\ IF Valid(req)
       THEN /\ Delay
            /\ submitResp' = SubmitOk(req)
       ELSE /\ submitResp' = SubmitRejected(req)
            /\ UNCHANGED <<backend, wpc, step, inCall, workerLocals, exc, ctrl, revoked,
                           cancels, invoked, failedCall, hist>>
    /\ UNCHANGED <<envVars, statusVars, streamVars>>

(* ---------------- the worker ---------------- *)
(* The worker takes the message. A revoked id is discarded and marked       *)
(* REVOKED; otherwise track_started stores STARTED before the body runs.    *)
WorkerPickup ==
    /\ wpc = "queued"
    /\ IF JobId \in revoked
       THEN /\ Store(Revoked)
            /\ wpc' = "done"
       ELSE /\ Store(Started)
            /\ wpc' = "run"
    /\ UNCHANGED <<step, inCall, workerLocals, exc, ctrl, revoked, cancels,
                   invoked, failedCall, submitResp, envVars, statusVars, streamVars>>

(* self.update_progress(state="PROGRESS", meta={...}) *)
WorkerWrite ==
    /\ wpc = "run"
    /\ step <= Len(Prog)
    /\ Prog[step].op = "write"
    /\ LET p == Prog[step]
           m == Meta(p.phase, p.status, p.message, p.progress)
       IN Store(IF step = PlanDoneStep
                THEN [m EXCEPT !.phases = <<<<"planning", <<plan>>>>>>]
                ELSE m)
    /\ result_phases' = IF step = ResearchDoneStep
                        THEN Append(result_phases, <<"research", search_results>>)
                        ELSE result_phases
    /\ step' = step + 1
    /\ UNCHANGED <<wpc, inCall, plan, search_results, exc, ctrl, revoked, cancels,
                   invoked, failedCall, submitResp, envVars, statusVars, streamVars>>

(* mutant: the next call is started without awaiting the one in flight *)
WorkerInvoke_Overlapping ==
    /\ wpc = "run"
    /\ step <= Len(Prog)
    /\ Prog[step].op = "call"
    /\ inCall' = TRUE
    /\ invoked' = Append(invoked, Prog[step].fn)
    /\ UNCHANGED <<backend, hist, wpc, step, workerLocals, exc, ctrl, revoked, cancels,
                   failedCall, submitResp, envVars, statusVars, streamVars>>
(* await call_...(...): the phase function is entered *)
WorkerInvoke ==
    /\ wpc = "run"
    /\ step <= Len(Prog)
    /\ Prog[step].op = "call"
    /\ ~inCall
    /\ inCall' = TRUE
    /\ invoked' = Append(invoked, Prog[step].fn)
    /\ UNCHANGED <<backend, hist, wpc, step, workerLocals, exc, ctrl, revoked, cancels,
                   failedCall, submitResp, envVars, statusVars, streamVars>>

(* the phase function raises: control goes to the except block *)
WorkerCallRaises(reason) ==
    /\ wpc = "run"
    /\ inCall
    /\ inCall' = FALSE
    /\ exc' = reason
    /\ failedCall' = Prog[step].fn
    /\ wpc' = "exc"
    /\ UNCHANGED <<backend, hist, step, workerLocals, ctrl, revoked, cancels, invoked,
                   submitResp, envVars, statusVars, streamVars>>

(* mutant: no return value counts as falsy *)
Falsy_Never(v) == FALSE
(* `if not plan`, `if not analysis_result`: the empty text (or None) *)
Falsy(v) == v = Empty

(* the phase function returns v; the code between the await and the next   *)
(* update_progress runs: the falsy checks and the result bookkeeping.      *)
CallReturns(v) ==
    /\ wpc = "run"
    /\ inCall
    /\ inCall' = FALSE
    /\ LET f == Prog[step].fn IN
       CASE f = "call_research_plan" ->
              IF Falsy(v)
              THEN /\ exc' = PlanError
                   /\ wpc' = "exc"
                   /\ UNCHANGED <<step, workerLocals>>
              ELSE /\ plan' = v
                   /\ result_phases' = Append(result_phases, <<"planning", <<v>>>>)
                   /\ step' = step + 1
                   /\ UNCHANGED <<exc, wpc, search_results>>
         [] f \in Searches ->
              /\ search_results' = Append(search_results, v)
              /\ step' = step + 1
              /\ UNCHANGED <<exc, wpc, plan, result_phases>>
         [] f = "call_generate_analysis" ->
              IF Falsy(v)
              THEN /\ exc' = AnalysisError
                   /\ wpc' = "exc"
                   /\ UNCHANGED <<step, workerLocals>>
              ELSE /\ result_phases' = Append(result_phases, <<"analysis", <<v>>>>)
                   /\ step' = step + 1
                   /\ UNCHANGED <<exc, wpc, plan, search_results>>
         [] f = "call_self_reflection" ->
              /\ result_phases' = Append(result_phases, <<"validation", <<v>>>>)
              /\ step' = step + 1
              /\ UNCHANGED <<exc, wpc, plan, search_results>>
    /\ UNCHANGED <<backend, hist, ctrl, revoked, cancels, invoked, failedCall, submitResp, envVars, statusVars, streamVars>>

WorkerCallReturns(v) == CallReturns(v)
(* the phase function returns a falsy value *)
WorkerCallReturnsEmpty == CallReturns(Empty)

(* return result: the worker stores SUCCESS with the returned dict *)
WorkerSucceeds ==
    /\ wpc = "run"
    /\ step = Len(Prog) + 1
    /\ Store(Success(result_phases))
    /\ wpc' = "done"
    /\ UNCHANGED <<step, inCall, workerLocals, exc, ctrl, revoked, cancels, invoked,
                   failedCall, submitResp, envVars, statusVars, streamVars>>

(* except Exception as e: self.update_progress(state="FAILURE", meta={...}) *)
WorkerExcept ==
    /\ wpc = "exc"
    /\ Store(FailureMeta(exc))
    /\ wpc' = "raise"
    /\ UNCHANGED <<step, inCall, workerLocals, exc, ctrl, revoked, cancels, invoked,
                   failedCall, submitResp, envVars, statusVars, streamVars>>

(* raise: the exception leaves the task and the worker stores FAILURE with it *)
WorkerRaise ==
    /\ wpc = "raise"
    /\ Store(FailureExc(exc))
    /\ wpc' = "done"
    /\ UNCHANGED <<step, inCall, workerLocals, exc, ctrl, revoked, cancels, invoked,
                   failedCall, submitResp, envVars, statusVars, streamVars>>

Executing == wpc \in {"run", "exc", "raise"}

(* ---------------- the soft time limit ---------------- *)
(* mutant: the signal of the soft limit is ignored by the task *)
SoftLimit_Ignored ==
    /\ Executing
    /\ exc # SoftLimitError
    /\ exc' = SoftLimitError
    /\ UNCHANGED <<backend, hist, wpc, step, inCall, workerLocals, ctrl, revoked, cancels,
                   invoked, failedCall, submitResp, envVars, statusVars, streamVars>>
(* soft_time_limit=540: the worker raises SoftTimeLimitExceeded in the      *)
(* process that executes the task, wherever it is. Raised in the code of    *)
(* the coroutine inside the try block it is caught by `except Exception`    *)
(* (line 428); raised while the event loop waits, or in the except block or *)
(* after it, it leaves asyncio.run() and the task without passing through   *)
(* the handler. exc keeps str(e) of the exception last raised.              *)
SoftLimit ==
    /\ Executing
    /\ exc # SoftLimitError
    /\ exc' = SoftLimitError
    /\ inCall' = FALSE
    /\ wpc' \in (IF wpc = "run"
                 THEN (IF inCall THEN {"exc", "raise"} ELSE {"exc"})
                 ELSE {"raise"})
    /\ UNCHANGED <<backend, hist, step, workerLocals, ctrl, revoked, cancels,
                   invoked, failedCall, submitResp, envVars, statusVars, streamVars>>

(* ---------------- time, and the hard time limit ---------------- *)
(* One time unit passes. age runs from the first start of the job's         *)
(* execution, ran is the running time of the execution in progress. Time    *)
(* does not pass an execution's hard limit before the worker has enforced   *)
(* it.                                                                      *)
Tick ==
    /\ Started \in hist
    /\ age < MaxAge
    /\ ~(Executing /\ ran = HardTicks)
    /\ age' = age + 1
    /\ ran' = IF Executing THEN ran + 1 ELSE ran
    /\ UNCHANGED <<backend, wpc, step, inCall, workerLocals, exc, ctrl, revoked, cancels,
                   invoked, failedCall, hist, submitResp, nLost, wpc2, step2, expired,
                   statusVars, streamVars>>

(* soft_time_limit: the exception is raised once the execution has run for  *)
(* that long                                                                *)
SoftLimitDue ==
    /\ ran >= SoftTicks
    /\ SoftLimit

(* time_limit=600: the worker kills the process that executes the task and  *)
(* stores FAILURE with TimeLimitExceeded; the message is acknowledged.      *)
HardLimit ==
    /\ Executing
    /\ ran = HardTicks
    /\ Store(FailureExc(HardLimitError))
    /\ wpc' = "done"
    /\ inCall' = FALSE
    /\ UNCHANGED <<step, workerLocals, exc, ctrl, revoked, cancels, invoked, failedCall,
                   submitResp, envVars, statusVars, streamVars>>

(* ---------------- late acknowledgement ---------------- *)
(* task_acks_late with task_reject_on_worker_lost: the message stays        *)
(* unacknowledged while the task executes; when the process executing it    *)
(* is lost, the message is rejected with requeue and no result is stored.   *)
(* The job is queued again, to be executed from the beginning.              *)
WorkerLost ==
    /\ Executing
    /\ nLost < MaxLost
    /\ nLost' = nLost + 1
    /\ wpc' = "queued"
    /\ step' = 1
    /\ inCall' = FALSE
    /\ plan' = None
    /\ search_results' = << >>
    /\ result_phases' = << >>
    /\ exc' = None
    /\ ran' = 0
    /\ UNCHANGED <<backend, hist, ctrl, revoked, cancels, invoked, failedCall, submitResp,
                   age, wpc2, step2, expired, statusVars, streamVars>>

(* The unacknowledged message is delivered a second time while its first    *)
(* execution goes on (the broker restores unacknowledged messages when the  *)
(* consumer's connection is lost): another worker process takes it and      *)
(* track_started stores STARTED.                                            *)
Redeliver ==
    /\ Executing
    /\ wpc2 = "off"
    /\ wpc2' = "run"
    /\ Store(Started)
    /\ UNCHANGED <<wpc, step, inCall, workerLocals, exc, ctrl, revoked, cancels, invoked,
                   failedCall, submitResp, age, ran, nLost, step2, expired,
                   statusVars, streamVars>>

(* The second execution, with phase functions that each return a text: its  *)
(* result in full                                                           *)
Text == CHOOSE t \in Texts : TRUE
FullPhases ==
    << <<"planning", <<Text>>>>, <<"research", <<Text, Text, Text>>>>,
       <<"analysis", <<Text>>>>, <<"validation", <<Text>>>> >>

(* one step of the second execution: an update_progress, an awaited phase   *)
(* function, or the return of the result                                    *)
Worker2Step ==
    /\ wpc2 = "run"
    /\ IF step2 > Len(Prog)
       THEN /\ Store(Success(FullPhases))
            /\ wpc2' = "done"
            /\ UNCHANGED step2
       ELSE /\ step2' = step2 + 1
            /\ wpc2' = wpc2
            /\ IF Prog[step2].op = "write"
               THEN LET p == Prog[step2]
                        m == Meta(p.phase, p.status, p.message, p.progress)
                    IN Store(IF step2 = PlanDoneStep
                             THEN [m EXCEPT !.phases = <<<<"planning", <<Text>>>>>>]
                             ELSE m)
               ELSE UNCHANGED <<backend, hist>>
    /\ UNCHANGED <<wpc, step, inCall, workerLocals, exc, ctrl, revoked, cancels, invoked,
                   failedCall, submitResp, age, ran, nLost, expired, statusVars, streamVars>>

(* ---------------- expiry of results ---------------- *)
(* mutant: the expiry leaves the record in place *)
Expire_Keeps ==
    /\ wpc = "done"
    /\ ~expired
    /\ expired' = TRUE
    /\ UNCHANGED <<backend, hist, wpc, step, inCall, workerLocals, exc, ctrl, revoked,
                   cancels, invoked, failedCall, submitResp, age, ran, nLost, wpc2, step2,
                   statusVars, streamVars>>
(* result_expires = 3600: the backend stores every record with that time to *)
(* live, and drops it when it has passed without a further write. The time  *)
(* between two writes of an execution is below the time limit of 600, so    *)
(* the record that expires is the last one of a job that is over.           *)
Expire ==
    /\ wpc = "done"
    /\ ~expired
    /\ expired' = TRUE
    /\ backend' = [backend EXCEPT ![JobId] = Absent]
    /\ UNCHANGED <<hist, wpc, step, inCall, workerLocals, exc, ctrl, revoked,
                   cancels, invoked, failedCall, submitResp, age, ran, nLost, wpc2, step2,
                   statusVars, streamVars>>

(* A client can name the job's id only once submit has returned it *)
Known(id) == id = JobId => wpc # "idle"

(* ---------------- cancellation ---------------- *)
(* cancel_analysis: celery_app.control.revoke(task_id, terminate=True) only *)
(* broadcasts; the route answers "cancelled" whatever the id or its state.  *)
CancelAccept(id, answer) ==
    /\ Known(id)
    /\ Len(cancels) < MaxCancel
    /\ ctrl' = ctrl \cup {id}
    /\ cancels' = Append(cancels, answer)
    /\ UNCHANGED <<backend, hist, wpc, step, inCall, workerLocals, exc, revoked,
                   invoked, failedCall, submitResp, envVars, statusVars, streamVars>>

(* the answer of the route, kept with the recorded state at that time *)
CancelAnswer(id) == [task_id |-> id, status |-> "cancelled", at |-> backend[id].state]
Cancel(id) == CancelAccept(id, CancelAnswer(id))
(* the same call, kept with the number of phases completed at that time too *)
CancelNoting(id) ==
    CancelAccept(id, [task_id |-> id, status |-> "cancelled", at |-> backend[id].state,
                      done |-> Len(result_phases)])

(* The worker handles the revoke broadcast: the id joins its revoked set,   *)
(* and terminate=True kills the process executing that task, which the     *)
(* worker records as REVOKED. A finished or unknown task is left alone.     *)
RevokeDeliver(id) ==
    /\ id \in ctrl
    /\ ctrl' = ctrl \ {id}
    /\ revoked' = revoked \cup {id}
    /\ IF id = JobId /\ Executing
       THEN /\ Store(Revoked)
            /\ wpc' = "done"
            /\ inCall' = FALSE
       ELSE UNCHANGED <<backend, hist, wpc, inCall>>
    /\ UNCHANGED <<step, workerLocals, exc, cancels, invoked, failedCall, submitResp, envVars, statusVars, streamVars>>

(* ---------------- AsyncResult ---------------- *)
(* AsyncResult._get_task_meta: the cached meta if a ready state was cached, *)
(* else a fresh read of the backend                                         *)
Fetch(cache, id) == IF cache # NoCache THEN cache ELSE backend[id]
(* AsyncResult._maybe_set_cache: only ready states are cached *)
Cached(cache, m) == IF cache = NoCache /\ m.state \in READY_STATES THEN m ELSE cache
(* the backend decodes a FAILURE/REVOKED result as an exception; a dict     *)
(* without exc_type makes that raise                                        *)
Decodes(m) == m.kind # "badmeta"

(* dict.get(key, default) on `task_result.info or {}`: the stored dict's    *)
(* value, or the default when the key is absent or there is no record      *)
Get(v, default) == IF v = None THEN default ELSE v
GetProgress(v, default) == IF v = NoProgress THEN default ELSE v
(* info.get(...) raises AttributeError when info is an exception instance *)
IsDict(m) == m.kind # "exc"

(* ---------------- status route ---------------- *)
Response(id, st, stt, msg, pr, ph, hasRes, res, er) ==
    [kind |-> "ok", task_id |-> id, state |-> st, status |-> stt, message |-> msg,
     progress |-> pr, phase |-> ph, hasResult |-> hasRes, result |-> res, error |-> er]
(* except Exception: raise HTTPException(status_code=500) *)
Http500(id) == [Response(id, None, None, None, NoProgress, None, FALSE, << >>, None)
                EXCEPT !.kind = "500"]
(* mutant: a state without a branch of its own is answered with an error *)
Bare_Unhandled(id, st) == Http500(id)
(* the response of a state that matches no branch: task_id and state only *)
Bare(id, st) == Response(id, st, None, None, NoProgress, None, FALSE, << >>, None)

LastTwo(s) == IF Len(s) > 2 THEN Tail(s) ELSE s

Respond(r) ==
    /\ resps' = LastTwo(Append(resps, r))
    /\ spc' = "idle"

StatusBegin(id) ==
    /\ Known(id)
    /\ spc = "idle"
    /\ nStatus < MaxStatus
    /\ nStatus' = nStatus + 1
    /\ spc' = "l61"
    /\ sid' = id
    /\ scache' = NoCache
    /\ sstate' = None
    /\ UNCHANGED <<coreVars, resps, streamVars>>

(* line 61: response = {"task_id": task_id, "state": task_result.state} *)
StatusL61 ==
    /\ spc = "l61"
    /\ LET m == Fetch(scache, sid) IN
       IF ~Decodes(m)
       THEN /\ Respond(Http500(sid))
            /\ UNCHANGED <<scache, sstate>>
       ELSE /\ sstate' = m.state
            /\ scache' = Cached(scache, m)
            /\ spc' = "l64"
            /\ UNCHANGED resps
    /\ UNCHANGED <<coreVars, sid, nStatus, streamVars>>

(* line 64: if task_result.state == "PENDING" *)
StatusL64 ==
    /\ spc = "l64"
    /\ LET m == Fetch(scache, sid) IN
       IF ~Decodes(m)
       THEN /\ Respond(Http500(sid))
            /\ UNCHANGED scache
       ELSE IF m.state = "PENDING"
       THEN /\ Respond(Response(sid, sstate, "pending", "Task is waiting to be processed",
                                0, None, FALSE, << >>, None))
            /\ UNCHANGED scache
       ELSE /\ scache' = Cached(scache, m)
            /\ spc' = "l72"
            /\ UNCHANGED resps
    /\ UNCHANGED <<coreVars, sid, sstate, nStatus, streamVars>>

(* line 72: elif task_result.state == "PROGRESS" *)
StatusL72 ==
    /\ spc = "l72"
    /\ LET m == Fetch(scache, sid) IN
       IF ~Decodes(m)
       THEN /\ Respond(Http500(sid))
            /\ UNCHANGED scache
       ELSE /\ scache' = Cached(scache, m)
            /\ spc' = IF m.state = "PROGRESS" THEN "l74" ELSE "l83"
            /\ UNCHANGED resps
    /\ UNCHANGED <<coreVars, sid, sstate, nStatus, streamVars>>

(* lines 74-82: info = task_result.info or {}; the four info.get(...) *)
StatusL74 ==
    /\ spc = "l74"
    /\ LET m == Fetch(scache, sid) IN
       IF ~Decodes(m) \/ ~IsDict(m)
       THEN Respond(Http500(sid))
       ELSE Respond(Response(sid, sstate, Get(m.status, "processing"),
                             Get(m.message, "Processing..."),
                             GetProgress(m.progress, 0), m.phase, FALSE, << >>, None))
    /\ UNCHANGED <<coreVars, sid, sstate, scache, nStatus, streamVars>>

(* lines 83-91: elif task_result.state == "SUCCESS": result = task_result.result *)
StatusL83 ==
    /\ spc = "l83"
    /\ LET m == Fetch(scache, sid) IN
       IF ~Decodes(m)
       THEN /\ Respond(Http500(sid))
            /\ UNCHANGED scache
       ELSE IF m.state = "SUCCESS"
       THEN /\ Respond(Response(sid, sstate, "completed", "Analysis completed successfully",
                                100, None, TRUE, m.phases, None))
            /\ UNCHANGED scache
       ELSE /\ scache' = Cached(scache, m)
            /\ spc' = "l92"
            /\ UNCHANGED resps
    /\ UNCHANGED <<coreVars, sid, sstate, nStatus, streamVars>>

(* lines 92-101: elif task_result.state == "FAILURE": error = str(task_result.info); *)
(* any other state: the bare response                                                 *)
StatusL92 ==
    /\ spc = "l92"
    /\ LET m == Fetch(scache, sid) IN
       IF ~Decodes(m)
       THEN Respond(Http500(sid))
       ELSE IF m.state = "FAILURE"
       THEN Respond(Response(sid, sstate, "failed", "Analysis failed",
                             NoProgress, None, FALSE, << >>, m.err))
       ELSE Respond(Bare(sid, sstate))
    /\ UNCHANGED <<coreVars, sid, sstate, scache, nStatus, streamVars>>

StatusStep == StatusL61 \/ StatusL64 \/ StatusL72 \/ StatusL74 \/ StatusL83 \/ StatusL92

(* ---------------- stream route ---------------- *)
EvPending == Event("PENDING", None, None, "Task is queued", 0, FALSE, << >>, None)
EvProgress(m) ==
    Event("PROGRESS", m.phase, m.status, m.message, GetProgress(m.progress, 0),
          FALSE, << >>, None)
EvSuccess(m) == Event("SUCCESS", None, None, "Analysis completed", 100, TRUE, m.phases, None)
EvFailure(m) == Event("FAILURE", None, None, "Analysis failed", NoProgress, FALSE, << >>, m.err)
EvOther(st) == Event(st, None, None, "Task state: " \o st, NoProgress, FALSE, << >>, None)
EvTimeout == Event("TIMEOUT", None, None, "Streaming timeout reached", NoProgress,
                   FALSE, << >>, None)
EvError == Event("ERROR", None, None, "Stream error", NoProgress, FALSE, << >>, None)

(* lines 140-176: the event built from current_state and current_info *)
EventOf(st, m) ==
    CASE st = "PENDING" -> EvPending
      [] st = "PROGRESS" -> EvProgress(m)
      [] st = "SUCCESS" -> EvSuccess(m)
      [] st = "FAILURE" -> EvFailure(m)
      [] OTHER -> EvOther(st)

(* lines 129-134: info_key *)
InfoKey(st, m) == <<st, m.phase, m.progress, m.status>>
(* mutant: every cycle sends *)
ShouldSend_Always(key, last, it) == TRUE
(* mutant: only the heartbeat sends *)
ShouldSend_HeartbeatOnly(key, last, it) == it % HeartbeatEvery = 0
(* mutant: only a changed key sends *)
ShouldSend_ChangeOnly(key, last, it) == key # last
(* line 137: should_send *)
ShouldSend(key, last, it) == key # last \/ it % HeartbeatEvery = 0

(* yield f"data: {json.dumps(data)}\n\n" *)
Yield(e) ==
    /\ nEv' = nEv + 1
    /\ lastEv' = e
    /\ maxProg' = IF e.progress > maxProg THEN e.progress ELSE maxProg
    /\ quiet' = 0

(* except Exception: the ERROR event, and the generator returns *)
StreamError ==
    /\ Yield(EvError)
    /\ gpc' = "end"

(* mutant: opening a stream also revokes the job *)
StreamOpen_Revoking ==
    /\ gpc = "off"
    /\ Known(JobId)
    /\ gpc' = "state"
    /\ ctrl' = ctrl \cup {JobId}
    /\ UNCHANGED <<backend, wpc, step, inCall, workerLocals, exc, revoked, cancels,
                   invoked, failedCall, hist, submitResp, envVars, statusVars, iterations, last_info,
                   gcache,
                   gstate, nEv, lastEv, maxProg, quiet>>
(* the route is called: event_generator() starts with a fresh AsyncResult *)
StreamOpen ==
    /\ gpc = "off"
    /\ Known(JobId)
    /\ gpc' = "state"
    /\ UNCHANGED <<coreVars, statusVars, iterations, last_info, gcache, gstate, nEv,
                   lastEv, maxProg, quiet>>

(* mutant: the loop test lets one more cycle through *)
LoopTest_OffByOne(it) == it <= max_iterations
(* line 124: while iterations < max_iterations *)
LoopTest(it) == it < max_iterations

(* line 124: the loop test; line 125: current_state = task_result.state;   *)
(* lines 190-195: the TIMEOUT marker once the loop has run out             *)
StreamReadState ==
    /\ gpc = "state"
    /\ IF ~LoopTest(iterations)
       THEN /\ Yield(EvTimeout)
            /\ gpc' = "end"
            /\ UNCHANGED <<gcache, gstate>>
       ELSE LET m == Fetch(gcache, JobId) IN
            IF ~Decodes(m)
            THEN /\ StreamError
                 /\ UNCHANGED <<gcache, gstate>>
            ELSE /\ gstate' = m.state
                 /\ gcache' = Cached(gcache, m)
                 /\ gpc' = "info"
                 /\ UNCHANGED <<nEv, lastEv, maxProg, quiet>>
    /\ UNCHANGED <<coreVars, statusVars, iterations, last_info>>

(* mutant: the SUCCESS and FAILURE branches do not leave the loop at their  *)
(* own yield, so the yield that ends the cycle sends the event once more   *)
StreamReadInfo_NoBreak ==
    /\ gpc = "info"
    /\ LET m == Fetch(gcache, JobId)
           key == InfoKey(gstate, m)
           send == ShouldSend(key, last_info, iterations)
       IN
       IF ~Decodes(m) \/ ~IsDict(m)
       THEN /\ StreamError
            /\ UNCHANGED <<iterations, last_info>>
       ELSE /\ IF send
               THEN /\ nEv' = nEv + (IF gstate \in {"SUCCESS", "FAILURE"} THEN 2 ELSE 1)
                    /\ lastEv' = EventOf(gstate, m)
                    /\ maxProg' = IF lastEv'.progress > maxProg
                                  THEN lastEv'.progress ELSE maxProg
                    /\ quiet' = 0
                    /\ last_info' = key
               ELSE /\ quiet' = quiet + 1
                    /\ UNCHANGED <<nEv, lastEv, maxProg, last_info>>
            /\ IF gstate \in {"SUCCESS", "FAILURE"}
               THEN /\ gpc' = "end"
                    /\ UNCHANGED iterations
               ELSE /\ gpc' = "state"
                    /\ iterations' = iterations + 1
    /\ UNCHANGED <<coreVars, statusVars, gcache, gstate>>
(* lines 126-187: current_info = task_result.info or {}, the event of this *)
(* cycle, the completion test, and the sleep that ends the cycle           *)
StreamReadInfo ==
    /\ gpc = "info"
    /\ LET m == Fetch(gcache, JobId)
           key == InfoKey(gstate, m)
           send == ShouldSend(key, last_info, iterations)
       IN
       IF ~Decodes(m) \/ ~IsDict(m)
       THEN /\ StreamError
            /\ UNCHANGED <<iterations, last_info>>
       ELSE IF send /\ gstate \in {"SUCCESS", "FAILURE"}
       THEN /\ Yield(EventOf(gstate, m))
            /\ gpc' = "end"
            /\ UNCHANGED <<iterations, last_info>>
       ELSE /\ IF send
               THEN /\ Yield(EventOf(gstate, m))
                    /\ last_info' = key
               ELSE /\ quiet' = quiet + 1
                    /\ UNCHANGED <<nEv, lastEv, maxProg, last_info>>
            /\ IF gstate \in {"SUCCESS", "FAILURE"}
               THEN /\ gpc' = "end"
                    /\ UNCHANGED iterations
               ELSE /\ gpc' = "state"
                    /\ iterations' = iterations + 1
    /\ UNCHANGED <<coreVars, statusVars, gcache, gstate>>

StreamStep == StreamReadState \/ StreamReadInfo

(* What the server raises inside a suspended generator whose subscriber has *)
(* gone: the task that iterates it is cancelled (CancelledError at the      *)
(* await) or the generator is closed (GeneratorExit at the yield).          *)
DisconnectSignals == {"CancelledError", "GeneratorExit"}
(* mutant: a handler that catches everything *)
Catches_Everything(e) == TRUE
(* line 197: except Exception catches neither of them, both derive from     *)
(* BaseException only                                                       *)
Catches(e) == e \notin DisconnectSignals

(* The subscriber disconnects while the generator is suspended between two  *)
(* cycles (at the yield or in asyncio.sleep): the signal is raised there,   *)
(* inside the try block. gpc = "gone" is the generator finished that way.   *)
Disconnect ==
    /\ gpc = "state"
    /\ \E e \in DisconnectSignals :
          IF Catches(e)
          THEN Yield(EvError)
          ELSE UNCHANGED <<nEv, lastEv, maxProg, quiet>>
    /\ gpc' = "gone"
    /\ UNCHANGED <<coreVars, statusVars, iterations, last_info, gcache, gstate>>

(* ======================= the claims ======================= *)
Terminal(st) == st \in READY_STATES
job == backend[JobId]
(* the job is over: the worker has left it and no revoke is still in flight *)
Final == wpc = "done" /\ ctrl = {}
Last(sq) == sq[Len(sq)]
RespSet == {resps[i] : i \in 1..Len(resps)}
CancelSet == {cancels[i] : i \in 1..Len(cancels)}
RecordedPhases(r) == {r.phases[i][1] : i \in 1..Len(r.phases)}
PhaseOfCall(f) ==
    CASE f = "call_research_plan" -> "planning"
      [] f \in Searches -> "research"
      [] f = "call_generate_analysis" -> "analysis"
      [] f = "call_self_reflection" -> "validation"
PhaseIdx(ph) ==
    CASE ph = "planning" -> 1 [] ph = "research" -> 2 [] ph = "analysis" -> 3
      [] ph = "validation" -> 4

(* C1: of two successive status reads of the job that both report a        *)
(* non-terminal state, the later one carries a progress, and it is not     *)
(* smaller than the earlier one's.                                         *)
C1_StatusProgressMonotone ==
    Len(resps) = 2 =>
        LET a == resps[1]
            b == resps[2]
        IN (a.kind = "ok" /\ b.kind = "ok" /\ ~Terminal(a.state) /\ ~Terminal(b.state))
           => (b.progress # NoProgress /\ b.progress >= a.progress)

(* C2: every snapshot the stream yields is the event of one stored record: *)
(* state and the info fields come from the same write.                     *)
C2_StreamSnapshotAtomic ==
    (nEv > 0 /\ lastEv.state \notin {"TIMEOUT", "ERROR"})
    => \E r \in hist : EventOf(r.state, r) = lastEv

(* C3: a status response carries result only with state SUCCESS and error  *)
(* only with state FAILURE.                                                *)
C3_ResultErrorMatchState ==
    \A r \in RespSet :
        r.kind = "ok" => /\ (r.hasResult => r.state = "SUCCESS")
                         /\ (r.error # None => r.state = "FAILURE")

(* C4: an event of the stream that carries a progress never carries less   *)
(* than an earlier event of that stream did.                               *)
C4_StreamProgressMonotone ==
    [][(nEv' = nEv + 1 /\ lastEv'.progress # NoProgress)
       => lastEv'.progress >= maxProg]_vars

(* C5 as claimed: a status read answered while the job is not terminal     *)
(* reports state PENDING or PROGRESS.                                      *)
C5_PendingOrProgressOnly ==
    [][(spc # "idle" /\ spc' = "idle" /\ ~Terminal(job.state))
       => (Last(resps').kind = "ok" /\ Last(resps').state \in {"PENDING", "PROGRESS"})]_vars

(* C5 amended: a status read answered while the job is not terminal is     *)
(* answered with a snapshot (never an error) whose state is PENDING,       *)
(* STARTED or PROGRESS.                                                    *)
C5_PendingStartedOrProgress ==
    [][(spc # "idle" /\ spc' = "idle" /\ ~Terminal(job.state))
       => (Last(resps').kind = "ok"
           /\ Last(resps').state \in {"PENDING", "STARTED", "PROGRESS"})]_vars

(* C5 witness: a read of the running job was answered with state STARTED   *)
C5_Witness ==
    /\ Len(resps) > 0
    /\ Last(resps).kind = "ok"
    /\ Last(resps).state = "STARTED"
    /\ ~Terminal(job.state)

(* C6: a status read of an id no submission returned is answered NotFound  *)
C6_UnknownIdNotFound ==
    \A r \in RespSet : r.task_id = GhostId => r.kind = "404"

(* C7: once a phase function has raised, the finished job is recorded as   *)
(* FAILURE with a non-empty error, the failing call was the last one made, *)
(* and the record holds no output of that phase or of a later one.         *)
C7_PhaseFailureFailsJob ==
    (failedCall # None /\ Final) =>
        /\ job.state = "FAILURE"
        /\ job.err \notin {None, ""}
        /\ Last(invoked) = failedCall
        /\ \A ph \in RecordedPhases(job) : PhaseIdx(ph) < PhaseIdx(PhaseOfCall(failedCall))

(* C8: when a search raised after planning succeeded, the final FAILURE    *)
(* record names the research phase and holds the planning output alone.    *)
C8_SearchFailureKeepsPlan ==
    (failedCall \in Searches /\ Final /\ job.state = "FAILURE") =>
        /\ job.phase = "research"
        /\ RecordedPhases(job) = {"planning"}

(* C9: a job whose cancel was accepted while it was not terminal ends      *)
(* recorded as REVOKED, never as SUCCESS or FAILURE.                       *)
C9_CancelledEndsRevoked ==
    \A c \in CancelSet :
        (c.task_id = JobId /\ ~Terminal(c.at) /\ Final) => job.state = "REVOKED"

(* C10: when the cancel was accepted while the job was still PENDING, no   *)
(* phase function is ever invoked, and the job ends REVOKED without phase  *)
(* outputs.                                                                *)
C10_CancelPendingRunsNothing ==
    \A c \in CancelSet :
        (c.task_id = JobId /\ c.at = "PENDING") =>
            /\ invoked = << >>
            /\ Final => (job.state = "REVOKED" /\ RecordedPhases(job) = {})

(* the phases of the pipeline, in order *)
Phases == <<"planning", "research", "analysis", "validation">>
NumPhases == Len(Phases)

(* C11: when the cancel was accepted after k >= 1 phases had completed and  *)
(* before the last one completed, the job ends REVOKED and its final record *)
(* holds exactly the outputs of those k phases.                             *)
C11_CancelKeepsCompletedPhases ==
    \A c \in CancelSet :
        (c.task_id = JobId /\ ~Terminal(c.at) /\ c.done >= 1 /\ c.done < NumPhases /\ Final) =>
            /\ job.state = "REVOKED"
            /\ job.phases = SubSeq(result_phases, 1, c.done)

(* C12: once a cancel of the job has been accepted, the runner starts no    *)
(* further phase function.                                                  *)
C12_NoPhaseAfterCancel ==
    [][(\E c \in CancelSet : c.task_id = JobId) => invoked' = invoked]_vars

(* C13: a cancel for an id that no submission returned is answered with     *)
(* NotFound, never with "cancelled".                                        *)
C13_CancelUnknownNotFound ==
    \A c \in CancelSet : c.task_id = GhostId => c.status = "NotFound"

(* the step in which the worker handles the revoke broadcast of the job *)
RevokeHandled == JobId \in ctrl /\ JobId \notin ctrl'
(* every cancel so far was accepted while the job's record was terminal *)
OnlyTerminalCancels ==
    /\ CancelSet # {}
    /\ \A c \in CancelSet : c.task_id = JobId /\ Terminal(c.at)

(* C14: a cancel accepted while the job's record is terminal is answered    *)
(* without error, and handling it leaves the record (state, result, error)  *)
(* as it was.                                                               *)
C14_TerminalCancelIsNoOp ==
    [][(OnlyTerminalCancels /\ RevokeHandled) =>
           /\ \A c \in CancelSet : c.status = "cancelled"
           /\ backend'[JobId] = backend[JobId]]_vars

(* C15: a terminal recorded state is never changed by a later write.        *)
C15_TerminalStateIsFinal ==
    [][Terminal(job.state) => backend'[JobId].state = job.state]_vars

(* C16: a stream that has read a terminal state of its job ends, and its    *)
(* last event is a snapshot carrying that terminal state.                   *)
C16_TerminalSnapshotThenEnd ==
    (gpc = "end" /\ gcache # NoCache) => lastEv.state = gcache.state

(* C17: the last event of a stream that has ended is a terminal-state       *)
(* snapshot or the timeout marker.                                          *)
C17_LastEventTerminalOrTimeout ==
    gpc = "end" => (Terminal(lastEv.state) \/ lastEv = EvTimeout)

(* C18: when a stream has run until its job was terminal, the state of its  *)
(* last event is the state that a status read taken after the stream ended  *)
(* returns.                                                                 *)
C18_StreamEndAgreesWithStatus ==
    \A r \in RespSet :
        (gpc = "end" /\ lastEv # EvTimeout) => (r.kind = "ok" /\ r.state = lastEv.state)

(* the step in which the stream finishes the polling cycle it is in *)
CycleEnds == gpc = "info" /\ gpc' # "info"
(* what the stream had just read when it finishes a cycle *)
PolledKey == InfoKey(gstate, Fetch(gcache, JobId))
(* the tuple of a record that the stream is to report *)
Tuple(r) == <<r.state, r.phase, r.progress, r.message>>

(* C19 (as stated): while a stream is attached and has emitted its first    *)
(* snapshot, every record that a write replaces by one with another         *)
(* (state, phase, progress, message) has been emitted: no change is skipped *)
C19_NoChangeSkipped ==
    [][(gpc \in {"state", "info"} /\ nEv >= 1 /\ Tuple(backend'[JobId]) # Tuple(job))
           => lastEv = EventOf(job.state, job)]_vars

(* C19 (amended): the first event is emitted before the first polling wait, *)
(* and every polling cycle that reads a (state, phase, progress, status)    *)
(* other than that of the last emitted snapshot emits an event.             *)
C19_EmitsOnPolledChange ==
    /\ [](iterations >= 1 => nEv >= 1)
    /\ [][(CycleEnds /\ PolledKey # last_info) => nEv' = nEv + 1]_vars

(* two consecutive cycles have each emitted a snapshot, the second one not  *)
(* on a heartbeat cycle                                                     *)
C19_Witness ==
    /\ gpc = "state"
    /\ iterations = 2
    /\ nEv = 2
    /\ lastEv.state = "PROGRESS"

(* C20: a polling cycle whose number is a multiple of 5 always emits an     *)
(* event, so fewer than 5 consecutive cycles pass without one.              *)
C20_Heartbeat ==
    /\ [](quiet < HeartbeatEvery)
    /\ [][(CycleEnds /\ iterations % HeartbeatEvery = 0) => nEv' = nEv + 1]_vars

(* the record has never changed, and the cycle after four quiet ones has    *)
(* emitted the second event                                                 *)
C20_Witness ==
    /\ job = Absent
    /\ gpc = "state"
    /\ iterations = HeartbeatEvery + 1
    /\ nEv = 2
    /\ quiet = 0

(* C21: a stream performs at most max_iterations polling cycles; it ends    *)
(* with the TIMEOUT marker exactly when that many cycles have elapsed, which *)
(* happens only if it never read a terminal state; and a terminal snapshot   *)
(* is the last event of its stream, so no stream emits both.                 *)
C21_StreamFinite ==
    /\ [](iterations <= max_iterations)
    /\ []((gpc = "end" /\ lastEv = EvTimeout) =>
              (iterations = max_iterations /\ gcache = NoCache))
    /\ []((gpc = "end" /\ iterations = max_iterations) => lastEv = EvTimeout)
    /\ [][(nEv' # nEv /\ Terminal(lastEv'.state)) => gpc' = "end"]_vars
    /\ [][gpc = "end" => (gpc' = "end" /\ nEv' = nEv)]_vars

(* a stream has run out of cycles and has ended with the TIMEOUT marker *)
C21_Witness ==
    /\ gpc = "end"
    /\ lastEv = EvTimeout
    /\ nEv >= 3

(* C22: once the subscriber of a stream has disconnected, the generator has *)
(* finished: it reads the record no more and emits no event, not even from  *)
(* its exception handler.                                                   *)
C22_DisconnectStopsStream ==
    [][gpc' = "gone" => /\ nEv' = nEv
                        /\ lastEv' = lastEv
                        /\ gpc = "gone" => streamVars' = streamVars]_vars

(* the subscriber left a stream that had emitted events and was still      *)
(* polling a running job                                                    *)
C22_Witness ==
    /\ gpc = "gone"
    /\ nEv >= 2
    /\ wpc = "run"

(* a step of a status read or of a stream, a disconnect included *)
ReaderStep == statusVars' # statusVars \/ streamVars' # streamVars

(* C23: no step of a status read or of a stream (its timeout and its        *)
(* subscriber's disconnect included) changes a job record, the worker, or   *)
(* the revokes in flight.                                                   *)
C23_ReadersDoNotMutate ==
    [][ReaderStep => coreVars' = coreVars]_vars

(* status reads have been answered, a stream has timed out or lost its      *)
(* subscriber, and the job has gone on to its end                           *)
C23_Witness ==
    /\ Len(resps) >= 1
    /\ gpc \in {"gone", "end"}
    /\ nEv >= 1
    /\ job.state = "SUCCESS"

(* C24: the step in which submit answers leaves the job queued, answers     *)
(* with the job id and status "started", writes no record and runs no       *)
(* phase; and as long as no worker has taken the job, the answer is there   *)
(* and the job is PENDING.                                                  *)
C24_SubmitDoesNotWait ==
    /\ [][(wpc = "idle" /\ wpc' # "idle") =>
              /\ wpc' = "queued"
              /\ submitResp' = SubmitOk(submitResp'.req)
              /\ backend' = backend
              /\ invoked' = invoked]_vars
    /\ [](wpc = "queued" =>
              (submitResp.kind = "ok" /\ submitResp.status = "started"
                   /\ submitResp.task_id = JobId /\ job.state = "PENDING"))

(* submit has answered and no worker has taken the job *)
C24_Witness ==
    /\ wpc = "queued"
    /\ submitResp.status = "started"
    /\ job = Absent

(* a request that the claim calls malformed *)
InvalidRequest(req) ==
    \/ req.len = Missing
    \/ req.len < MinQueryLen
    \/ req.len > MaxQueryLen
    \/ req.depth \notin {None, "standard", "deep"}

(* C25: a submission with a missing, too short or too long query, or with   *)
(* a reasoning_depth other than "standard" or "deep", is rejected; and a    *)
(* rejected submission allocates no id and leaves no job behind.            *)
C25_InvalidRejected ==
    /\ InvalidRequest(submitResp.req) => submitResp.kind = "422"
    /\ submitResp.kind = "422" =>
           (submitResp.task_id = None /\ wpc = "idle" /\ job = Absent /\ hist = {Absent})

(* a query one character too long has been rejected *)
C25_Witness ==
    /\ submitResp.kind = "422"
    /\ submitResp.req.len = MaxQueryLen + 1
    /\ submitResp.req.depth = "deep"

(* every phase has its entry in the phases of a result, none of them empty,  *)
(* and research holds one output per search                                 *)
HoldsEveryPhase(phs) ==
    /\ Len(phs) = NumPhases
    /\ \A i \in 1..NumPhases :
          /\ phs[i][1] = Phases[i]
          /\ phs[i][2] # << >>
          /\ \A k \in 1..Len(phs[i][2]) : phs[i][2][k] # Empty
    /\ Len(phs[2][2]) = Cardinality(Searches)

(* C26: a job that has finished without a phase function failing and        *)
(* without a cancel is recorded SUCCESS with the output of every phase, and *)
(* every status answer and stream event that reports SUCCESS carries         *)
(* progress 100 and that result.                                             *)
C26_AllPhasesSucceed ==
    (Final /\ failedCall = None /\ cancels = << >>) =>
        /\ job.state = "SUCCESS"
        /\ HoldsEveryPhase(job.phases)
        /\ \A r \in RespSet :
              (r.kind = "ok" /\ r.state = "SUCCESS") =>
                  (r.progress = 100 /\ r.hasResult /\ r.result = job.phases)
        /\ lastEv.state = "SUCCESS" =>
              (lastEv.progress = 100 /\ lastEv.hasResult /\ lastEv.result = job.phases)

(* the job has succeeded, its stream has ended on the SUCCESS event and the *)
(* status read taken afterwards has reported SUCCESS                        *)
C26_Witness ==
    /\ Final /\ failedCall = None /\ cancels = << >>
    /\ gpc = "end" /\ lastEv.state = "SUCCESS"
    /\ \E r \in RespSet : r.kind = "ok" /\ r.state = "SUCCESS"

(* a progress value, where there is one, lies in 0..100 and is 100 only     *)
(* together with the state SUCCESS                                          *)
ProgressOk(pr, st) ==
    pr # NoProgress => (pr \in 0..100 /\ (pr = 100 => st = "SUCCESS"))

(* C27: every progress written to the record, returned by a status read or  *)
(* carried by a stream event is in 0..100, and is 100 only when the         *)
(* reported state is SUCCESS.                                               *)
C27_ProgressRange ==
    /\ \A r \in hist : ProgressOk(r.progress, r.state)
    /\ \A r \in RespSet : r.kind = "ok" => ProgressOk(r.progress, r.state)
    /\ nEv > 0 => ProgressOk(lastEv.progress, lastEv.state)

(* the phase functions in the order the claim gives *)
PhaseOrder ==
    <<"call_research_plan", "call_resource_search_1", "call_resource_search_2",
      "call_resource_search_3", "call_generate_analysis", "call_self_reflection">>

(* C28: the phase functions of the job are invoked in the order planning,   *)
(* search 1, 2, 3, analysis, validation, each at most once; a call starts   *)
(* only when none is in flight, and the one in flight is the last invoked.  *)
C28_PhasesSequential ==
    /\ [](Len(invoked) <= Len(PhaseOrder) /\ invoked = SubSeq(PhaseOrder, 1, Len(invoked)))
    /\ [](inCall => (invoked # << >> /\ Prog[step].fn = Last(invoked)))
    /\ [][invoked' # invoked =>
              (~inCall /\ inCall' /\ invoked' = Append(invoked, Last(invoked')))]_vars

(* all six phase functions have been invoked and the last one is in flight *)
C28_Witness ==
    /\ Len(invoked) = Len(PhaseOrder)
    /\ inCall

(* C29: the record of every phase function invoked so far was preceded by   *)
(* a PROGRESS write naming its phase with status "started"; the first call  *)
(* by the write (planning, started, progress 10).                           *)
C29_StartedBeforeInvoke ==
    /\ \A i \in 1..Len(invoked) :
          \E r \in hist : /\ r.state = "PROGRESS"
                          /\ r.phase = PhaseOfCall(invoked[i])
                          /\ r.status = "started"
    /\ invoked # << >> =>
          \E r \in hist : /\ r.state = "PROGRESS" /\ r.phase = "planning"
                          /\ r.status = "started" /\ r.progress = 10

(* the validation call has just been started, after the write that          *)
(* announces validation                                                     *)
C29_Witness ==
    /\ inCall
    /\ Last(invoked) = "call_self_reflection"
    /\ job.phase = "validation" /\ job.status = "started"

C31_TerminalWithinHardLimit ==
    age > HardTicks => Terminal(job.state)

(* C32: the job's pipeline is never executed by two worker processes at the *)
(* same time.                                                               *)
C32_SingleExecution ==
    ~(Executing /\ wpc2 = "run")

(* C33: once a phase function of the job has raised, no phase function is   *)
(* invoked for that job again, and the job, once over, is recorded as       *)
(* FAILURE.                                                                 *)
C33_FailedPhaseNotRetried ==
    /\ [][failedCall # None => invoked' = invoked]_vars
    /\ []((failedCall # None /\ wpc = "done") => job.state = "FAILURE")

(* an answer or an event that carries nothing of a terminal record *)
NothingTerminal(r) == ~Terminal(r.state) /\ ~r.hasResult /\ r.error = None

(* C34: once the job's record has expired, every status read that is        *)
(* answered and every event of a stream opened after the expiry carries no  *)
(* terminal state, no result and no error of the job.                       *)
C34_NothingAfterExpiry ==
    /\ [][(expired /\ spc # "idle" /\ spc' = "idle") =>
              (Last(resps').kind = "ok" /\ NothingTerminal(Last(resps')))]_vars
    /\ [][(expired /\ nEv' # nEv) => NothingTerminal(lastEv')]_vars
    /\ [](expired => job = Absent)

(* the job's result was read before the expiry; after it a status read was  *)
(* answered without it, and a stream opened then has emitted events         *)
C34_Witness ==
    /\ expired
    /\ Len(resps) = 2
    /\ resps[1].state = "SUCCESS" /\ resps[1].hasResult
    /\ resps[2].state = "PENDING"
    /\ nEv >= 2

(* the messages of the writes that follow the three searches, in order *)
SearchMessages == <<"Completed search 1/3", "Completed search 2/3", "Completed search 3/3">>

(* C35: the progress written after the 1st, 2nd and 3rd search is 30, 40    *)
(* and 50, each below the 60 written when the research phase is completed.  *)
C35_SearchProgressInBand ==
    \A k \in 1..Len(SearchMessages) :
        \A r \in hist :
            (r.state = "PROGRESS" /\ r.message = SearchMessages[k]) =>
                /\ r.phase = "research"
                /\ r.progress = 20 + 10 * k
                /\ r.progress < 60

(* the values the searches have returned so far *)
SearchValues == {search_results[i] : i \in 1..Len(search_results)}
(* the phase function whose return is awaited *)
Awaited == Prog[step].fn

(* C36: an empty result of the planning or of the analysis function fails   *)
(* the job: no further phase function is invoked and the job ends recorded  *)
(* as FAILURE with the error of that check. Whatever a search or the        *)
(* validation function returns, the empty text included, the runner goes on *)
(* to its next step.                                                        *)
C36_EmptyResults ==
    /\ []((exc = PlanError /\ wpc = "done") =>
              /\ job.state = "FAILURE" /\ job.err = PlanError
              /\ invoked = <<"call_research_plan">>)
    /\ []((exc = AnalysisError /\ wpc = "done") =>
              /\ job.state = "FAILURE" /\ job.err = AnalysisError
              /\ Last(invoked) = "call_generate_analysis")
    /\ [][(exc \in {PlanError, AnalysisError}) => invoked' = invoked]_vars
    /\ [][(inCall /\ ~inCall' /\ failedCall' = failedCall) =>
              IF Awaited \in Searches \cup {"call_self_reflection"}
              THEN wpc' = "run" /\ step' = step + 1 /\ exc' = exc
              ELSE IF wpc' = "exc"
                   THEN exc' \in {PlanError, AnalysisError} /\ step' = step
                   ELSE Last(result_phases')[2] # <<Empty>> /\ step' = step + 1]_vars
    /\ []((wpc = "done" /\ exc = None) => job.state = "SUCCESS")

(* a job has ended in SUCCESS although its second search and its validation *)
(* returned the empty text                                                  *)
C36_Witness ==
    /\ wpc = "done"
    /\ job.state = "SUCCESS"
    /\ search_results[2] = Empty
    /\ \E i \in 1..Len(job.phases) : job.phases[i] = <<"validation", <<Empty>>>>

(* the state of a terminal snapshot of the stream *)
TerminalEvent(e) == e.state \in {"SUCCESS", "FAILURE"}

(* C37: no step of a stream emits more than one event, and after a SUCCESS  *)
(* or FAILURE snapshot the stream emits nothing: there is at most one, and  *)
(* it is the last event.                                                    *)
C37_OneTerminalSnapshot ==
    /\ [][nEv' \in {nEv, nEv + 1}]_vars
    /\ [][(nEv > 0 /\ TerminalEvent(lastEv)) => (nEv' = nEv /\ lastEv' = lastEv)]_vars
    /\ []((nEv > 0 /\ TerminalEvent(lastEv)) => gpc = "end")

(* the stream has emitted the SUCCESS snapshot after at least two other     *)
(* events, and has ended                                                    *)
C37_Witness ==
    /\ gpc = "end"
    /\ lastEv.state = "SUCCESS"
    /\ nEv >= 3

(* the stream is in a cycle that is no heartbeat cycle *)
NonHeartbeat == iterations % HeartbeatEvery # 0
(* the remembered tuple is that of the event e (an event carries progress  *)
(* 0 where the tuple has none)                                              *)
Remembers(e) ==
    /\ last_info[1] = e.state
    /\ e.state = "PROGRESS" =>
           (/\ last_info[2] = e.phase
            /\ GetProgress(last_info[3], 0) = e.progress
            /\ last_info[4] = e.status)

(* C38: a cycle that is no heartbeat cycle emits a snapshot only if the     *)
(* (state, phase, progress, status) it has read differs from the remembered *)
(* tuple, and none if it is equal; while the stream goes on, the remembered *)
(* tuple is that of the last emitted event: it is replaced by the tuple     *)
(* read in every cycle that emits, and in no other step.                    *)
C38_EmitsOnlyOnChange ==
    /\ [][(CycleEnds /\ NonHeartbeat /\ nEv' # nEv /\ lastEv' # EvError)
              => PolledKey # last_info]_vars
    /\ [][(CycleEnds /\ NonHeartbeat /\ PolledKey = last_info /\ gpc' = "state")
              => (nEv' = nEv /\ last_info' = last_info)]_vars
    /\ [][(CycleEnds /\ gpc' = "state")
              => last_info' = (IF nEv' # nEv THEN PolledKey ELSE last_info)]_vars
    /\ [][last_info' # last_info => (CycleEnds /\ nEv' = nEv + 1)]_vars
    /\ []((gpc \in {"state", "info"} /\ nEv > 0) => Remembers(lastEv))

(* the job is in progress and the stream has passed two cycles in a row     *)
(* without an event, after having emitted at least two                      *)
C38_Witness ==
    /\ gpc = "state"
    /\ quiet = 2
    /\ nEv >= 2
    /\ job.state = "PROGRESS"
    /\ last_info[1] = "PROGRESS"

(* ---------------- specifications ---------------- *)
WorkerStep ==
    \/ WorkerPickup
    \/ WorkerWrite
    \/ WorkerInvoke
    \/ \E r \in Reasons : WorkerCallRaises(r)
    \/ \E v \in Texts : WorkerCallReturns(v)
    \/ WorkerSucceeds
    \/ WorkerExcept
    \/ WorkerRaise

(* the job, its worker and its cancellation, with status reads of the job *)
Next ==
    \/ Submit
    \/ WorkerStep
    \/ Cancel(JobId)
    \/ RevokeDeliver(JobId)
    \/ StatusBegin(JobId)
    \/ StatusStep

Spec == Init /\ [][Next]_vars

(* the job and its worker, with a client that reads the job's status and  *)
(* also addresses an id no submission returned                            *)
GhostNext ==
    \/ Submit
    \/ WorkerStep
    \/ Cancel(GhostId)
    \/ RevokeDeliver(GhostId)
    \/ StatusBegin(JobId)
    \/ StatusBegin(GhostId)
    \/ StatusStep

GhostSpec == Init /\ [][GhostNext]_vars

(* the job, its worker and its cancellation, observed by one live stream *)
StreamNext ==
    \/ Submit
    \/ WorkerStep
    \/ Cancel(JobId)
    \/ RevokeDeliver(JobId)
    \/ StreamOpen
    \/ StreamStep

StreamSpec == Init /\ [][StreamNext]_vars

(* the job and cancel calls that note how far the pipeline had come *)
CancelNext ==
    \/ Submit
    \/ WorkerStep
    \/ CancelNoting(JobId)
    \/ RevokeDeliver(JobId)
CancelSpec == Init /\ [][CancelNext]_vars

(* a client that follows the job on a stream and reads its status once,    *)
(* after the stream has ended                                               *)
StatusAfterStream ==
    /\ gpc = "end"
    /\ nStatus = 0
    /\ StatusBegin(JobId)
FollowNext ==
    \/ Submit
    \/ WorkerStep
    \/ Cancel(JobId)
    \/ RevokeDeliver(JobId)
    \/ StreamOpen
    \/ StreamStep
    \/ StatusAfterStream
    \/ StatusStep
FollowSpec == Init /\ [][FollowNext]_vars

(* the job and its worker, watched by one stream whose subscriber may       *)
(* leave, and by a status read taken once the stream is over                *)
StatusAfterLeaving ==
    /\ gpc = "gone"
    /\ nStatus = 0
    /\ StatusBegin(JobId)
WatchNext ==
    \/ Submit
    \/ WorkerStep
    \/ StreamOpen
    \/ StreamStep
    \/ Disconnect
    \/ StatusAfterStream
    \/ StatusAfterLeaving
    \/ StatusStep
WatchSpec == Init /\ [][WatchNext]_vars

(* submissions with any request body, and the job of the accepted one *)
SubmitNext ==
    \/ \E req \in Requests : SubmitRequest(req)
    \/ WorkerStep
    \/ Cancel(JobId)
    \/ RevokeDeliver(JobId)
SubmitSpec == Init /\ [][SubmitNext]_vars

(* the job and its worker under the soft time limit *)
LimitNext ==
    \/ Submit
    \/ WorkerStep
    \/ SoftLimit
LimitSpec == Init /\ [][LimitNext]_vars

(* the job and its worker, with phase functions that may return nothing *)
EmptyNext ==
    \/ Submit
    \/ WorkerStep
    \/ WorkerCallReturnsEmpty
EmptySpec == Init /\ [][EmptyNext]_vars

(* the job and its worker in time, under the two time limits and the loss   *)
(* of the executing process                                                 *)
TimedNext ==
    \/ Submit
    \/ WorkerStep
    \/ Tick
    \/ SoftLimitDue
    \/ HardLimit
    \/ WorkerLost
TimedSpec == Init /\ [][TimedNext]_vars

(* the job under late acknowledgement, with the loss of the executing       *)
(* process                                                                  *)
RequeueNext ==
    \/ Submit
    \/ WorkerStep
    \/ WorkerLost
RequeueSpec == Init /\ [][RequeueNext]_vars

(* the job under late acknowledgement, with a second delivery of the        *)
(* message while the first execution goes on                                *)
DuplicateNext ==
    \/ Submit
    \/ WorkerStep
    \/ Redeliver
    \/ Worker2Step
DuplicateSpec == Init /\ [][DuplicateNext]_vars

(* the job, status reads of it, the expiry of its record while no read is   *)
(* under way, and a stream opened after the expiry                          *)
ExpireBetweenReads ==
    /\ spc = "idle"
    /\ gpc = "off"
    /\ Expire
StreamOpenLate ==
    /\ expired
    /\ StreamOpen
ExpiryNext ==
    \/ Submit
    \/ WorkerStep
    \/ StatusBegin(JobId)
    \/ StatusStep
    \/ ExpireBetweenReads
    \/ StreamOpenLate
    \/ StreamStep
ExpirySpec == Init /\ [][ExpiryNext]_vars
====
